---- MODULE Spec2Model ----
(***************************************************************************)
(* Model of trader.py, the paper-trading bot: one invocation loads the     *)
(* portfolio, fetches the BTC price, runs execute_trade (decision, log     *)
(* append, JSON save) and rewrites the README dashboard.                   *)
(*                                                                         *)
(* Numbers.  The program computes in floats.  The model computes exactly,  *)
(* in fixed point: cash, btc and total_value are stored as multiples of    *)
(* 1/Scale, prices are whole dollars.  Scale is chosen so that 100/p is a  *)
(* whole number of units for every price of the model, hence no operation  *)
(* of execute_trade rounds.  NaN and the infinities are outside the model. *)
(***************************************************************************)
EXTENDS Integers, Sequences, FiniteSets, TLC

\* ---------------------------------------------------------------- constants
INITIAL_CASH == 10000
FIXED_NOTIONAL == 100
LowerPct == 98
UpperPct == 102

\* Positive prices the quote endpoint returns in the model: 100 with its two
\* exact band edges (98, 102) and one price strictly inside the band (99).
Prices == {98, 99, 100, 102}

\* lcm of p / gcd(p, 100) over Prices, so that 100/p is exact in 1/Scale units.
Scale == 3 * 3 * 7 * 7 * 11 * 17

\* Invocations explored after the initial state: without crashes (Spec) and
\* with them (SpecCrash).
MaxCycles == 5
MaxCrashCycles == 4

Fx(n) == n * Scale

\* ----------------------------------------------------------- number formats
\* <<q, r>> with n * 10^k = q * Scale + r and 0 <= r < Scale: the value n/Scale
\* written with k decimals, truncated, and what is left over.
RECURSIVE DecQR(_, _)
DecQR(n, k) ==
    IF k = 0 THEN <<n \div Scale, n % Scale>>
    ELSE LET p == DecQR(n, k - 1)
         IN  <<p[1] * 10 + ((p[2] * 10) \div Scale), (p[2] * 10) % Scale>>

\* Python's f"{x:.kf}" of the fixed-point value n: the number of 10^-k units,
\* rounded to nearest, an exact tie to even.
Fmt(n, k) ==
    LET p == DecQR(n, k)
    IN  IF 2 * p[2] > Scale THEN p[1] + 1
        ELSE IF 2 * p[2] < Scale THEN p[1]
        ELSE IF p[1] % 2 = 0 THEN p[1] ELSE p[1] + 1

\* f"{current_price:.2f}" of a whole-dollar price: cents.
FmtPrice(p) == p * 100

\* ------------------------------------------------------------ load_portfolio
NoFile == [exists |-> FALSE]

FreshPortfolio ==
    [cash |-> Fx(INITIAL_CASH), btc |-> 0, last_price |-> 0,
     total_value |-> Fx(INITIAL_CASH)]

\* json.dump writes each float so that json.load reads the same float back.
StoredFile(portfolio) == [exists |-> TRUE, data |-> portfolio]

load_portfolio_AlwaysFresh(f) == FreshPortfolio

load_portfolio(f) == IF ~f.exists THEN FreshPortfolio ELSE f.data

\* ------------------------------------------------------------- get_btc_price
Unavailable == [ok |-> FALSE, rate |-> 0]

FetchResults == {Unavailable} \cup {[ok |-> TRUE, rate |-> p] : p \in Prices \cup {0}}

\* `if price:` - None and 0.0 are both falsy.
Truthy_NotNone(r) == r.ok

Truthy(r) == r.ok /\ r.rate # 0

\* ------------------------------------------------------------- execute_trade
IsUninitialized(portfolio) == portfolio.last_price = 0

\* current_price < last_price * 0.98
BelowBand_Inclusive(last_price, current_price) ==
    current_price * 100 <= last_price * LowerPct

BelowBand(last_price, current_price) ==
    current_price * 100 < last_price * LowerPct

\* current_price > last_price * 1.02
AboveBand(last_price, current_price) ==
    current_price * 100 > last_price * UpperPct

CanBuy_NonNegative(portfolio) == portfolio.cash >= 0

CanBuy(portfolio) == portfolio.cash >= Fx(FIXED_NOTIONAL)

\* portfolio["btc"] >= 100 / current_price, both sides times current_price.
CanSell_AnyHolding(portfolio, current_price) == portfolio.btc >= 0

CanSell(portfolio, current_price) ==
    portfolio.btc * current_price >= Fx(FIXED_NOTIONAL)

\* 100 / current_price (current_price # 0), in 1/Scale units.
NotionalQty(current_price) == Fx(FIXED_NOTIONAL) \div current_price

TotalValue_AtLastPrice(portfolio, current_price) ==
    portfolio.cash + portfolio.btc * portfolio.last_price

TotalValue(portfolio, current_price) ==
    portfolio.cash + portfolio.btc * current_price

\* Line 76 left out: only the INIT branch (line 45) has set last_price.
NewLastPrice_OnlyOnInit(portfolio, current_price) == portfolio.last_price

NewLastPrice(portfolio, current_price) == current_price

\* What one branch of lines 43-72 leaves behind: the portfolio as the branch
\* mutated it, the action tag and the explanation.
Branch(portfolio, trade_action, log_msg) ==
    [fault |-> FALSE, portfolio |-> portfolio,
     trade_action |-> trade_action, log_msg |-> log_msg]

\* 100 / current_price with current_price = 0: ZeroDivisionError, raised
\* before anything is written.
Fault(portfolio) ==
    [fault |-> TRUE, portfolio |-> portfolio,
     trade_action |-> "HOLD", log_msg |-> <<"">>]

\* Lines 39-72.
Decide(portfolio, current_price) ==
    IF IsUninitialized(portfolio) THEN
        Branch([portfolio EXCEPT !.last_price = current_price],
               "INIT", <<"init price watch">>)
    ELSE IF BelowBand(portfolio.last_price, current_price) THEN
        IF CanBuy(portfolio) THEN
            IF current_price = 0 THEN Fault(portfolio)
            ELSE Branch([portfolio EXCEPT
                            !.btc = @ + NotionalQty(current_price),
                            !.cash = @ - Fx(FIXED_NOTIONAL)],
                        "BUY",
                        <<"dip buy $100", Fmt(NotionalQty(current_price), 6)>>)
        ELSE
            Branch(portfolio, "HOLD", <<"insufficient cash">>)
    ELSE IF AboveBand(portfolio.last_price, current_price) THEN
        IF current_price = 0 THEN Fault(portfolio)
        ELSE IF CanSell(portfolio, current_price) THEN
            Branch([portfolio EXCEPT
                        !.btc = @ - NotionalQty(current_price),
                        !.cash = @ + Fx(FIXED_NOTIONAL)],
                   "SELL", <<"rally sell $100">>)
        ELSE
            Branch(portfolio, "HOLD", <<"insufficient position">>)
    ELSE
        Branch(portfolio, "HOLD", <<"small move (Hold)">>)

\* Lines 39-76: the in-memory portfolio with total_value and last_price
\* updated, the action and the explanation.
Trade(portfolio, current_price) ==
    LET d == Decide(portfolio, current_price)
    IN  [d EXCEPT !.portfolio =
            [cash |-> d.portfolio.cash,
             btc |-> d.portfolio.btc,
             last_price |-> NewLastPrice(d.portfolio, current_price),
             total_value |-> TotalValue(d.portfolio, current_price)]]

\* ------------------------------------------------------------------ log file
NoLog == [exists |-> FALSE, lines |-> <<>>]

Header == [kind |-> "header", text |-> "Date,Action,Price,Total Value,Details"]

LogRow_CashAsTotal(timestamp, t, current_price) ==
    [kind |-> "row", date |-> timestamp, action |-> t.trade_action,
     price |-> FmtPrice(current_price),
     total |-> Fmt(t.portfolio.cash, 2),
     details |-> t.log_msg]

\* The row of line 86, each field as the f-string formats it.
LogRow(timestamp, t, current_price) ==
    [kind |-> "row", date |-> timestamp, action |-> t.trade_action,
     price |-> FmtPrice(current_price),
     total |-> Fmt(t.portfolio.total_value, 2),
     details |-> t.log_msg]

AppendLog_AlwaysHeader(l, row) ==
    [exists |-> TRUE, lines |-> l.lines \o <<Header, row>>]

\* open(LOG_FILE, "a"), the header if the file did not exist, then the row.
AppendLog(l, row) ==
    [exists |-> TRUE,
     lines |-> IF ~l.exists THEN <<Header, row>> ELSE Append(l.lines, row)]

\* ------------------------------------------------------------- update_readme
NoReadme == [exists |-> FALSE]

Icon(action) == IF action = "BUY" THEN "green" ELSE IF action = "SELL" THEN "red" ELSE "white"

LastFive(s) == IF Len(s) <= 5 THEN s ELSE SubSeq(s, Len(s) - 4, Len(s))

\* One dashboard line per log line: parts[0], parts[4] and parts[2] of the
\* line split at the commas, with the icon of parts[1].
RecentLine(line) ==
    IF line.kind = "header"
    THEN [icon |-> Icon("Action"), date |-> "Date", details |-> <<"Details">>,
          price |-> "Price"]
    ELSE [icon |-> Icon(line.action), date |-> line.date,
          details |-> line.details, price |-> line.price]

\* lines[1:][-5:]
RecentLogs(l) ==
    IF ~l.exists THEN <<>>
    ELSE LET rows == LastFive(Tail(l.lines))
         IN  [i \in 1..Len(rows) |-> RecentLine(rows[i])]

\* The fields the f-string of lines 111-128 fills in; profit_pct is in
\* hundredths of a percent, that is (total_value - INITIAL_CASH) in dollars.
Readme(portfolio, l) ==
    LET profit == portfolio.total_value - Fx(INITIAL_CASH)
    IN  [exists |-> TRUE,
         cash |-> Fmt(portfolio.cash, 2),
         btc |-> Fmt(portfolio.btc, 6),
         total_value |-> Fmt(portfolio.total_value, 2),
         color |-> IF profit >= 0 THEN "green" ELSE "red",
         profit_pct |-> Fmt(profit, 0),
         recent_logs |-> RecentLogs(l)]

\* ----------------------------------------------------------------- the disk
\* data_dir: the data/ folder exists.  file: data/portfolio.json.
\* log: data/trade_log.csv.  readme: README.md.
Disk(d, f, l, r) == [data_dir |-> d, file |-> f, log |-> l, readme |-> r]

FreshDisk == Disk(FALSE, NoFile, NoLog, NoReadme)

\* Lines 78-86 of execute_trade: the row of this cycle appended to the log.
Logged(d, timestamp, t, current_price) ==
    [d EXCEPT !.log = AppendLog(d.log, LogRow(timestamp, t, current_price))]

\* Lines 88-90 (json.dump) and then update_readme(port), line 142.
Saved(d, portfolio) ==
    [d EXCEPT !.file = StoredFile(portfolio), !.readme = Readme(portfolio, d.log)]

\* Line 134 on the disk: load_portfolio creates data/ and writes no file.
Loaded(d) == [d EXCEPT !.data_dir = TRUE]

Skipped_SavesState(d) == [d EXCEPT !.file = StoredFile(load_portfolio(d.file))]

\* The else branch of line 144: a message on the console, nothing on disk.
Skipped(d) == d

\* The disk after one whole invocation (lines 132-145) at minute timestamp
\* whose fetch returned r.
RunOnce(d, timestamp, r) ==
    IF ~Truthy(r) THEN Skipped(Loaded(d))
    ELSE LET t == Trade(load_portfolio(d.file), r.rate)
         IN  IF t.fault THEN Loaded(d)
             ELSE Saved(Logged(Loaded(d), timestamp, t, r.rate), t.portfolio)

\* What the invocation reports: the action of execute_trade when it ran.
Outcome(d, r) ==
    IF ~Truthy(r) THEN [outcome |-> "skipped", trade_action |-> "NONE"]
    ELSE LET t == Trade(load_portfolio(d.file), r.rate)
         IN  IF t.fault THEN [outcome |-> "fault", trade_action |-> "NONE"]
             ELSE [outcome |-> "completed", trade_action |-> t.trade_action]

\* ------------------------------------------------------------ initial states
\* One round of prices that buys once and never sells: 98 is more than 2%
\* below 102, and each of 99, 100, 102 is within 2% of the price before it.
DrainRound == <<98, 99, 100, 102>>

RECURSIVE DrainPrices(_)
DrainPrices(rounds) ==
    IF rounds = 0 THEN <<102>> ELSE DrainPrices(rounds - 1) \o DrainRound

\* The model starts either with nothing on disk, or with what the program
\* itself leaves on disk after DrainPrices(n), for the n that leave cash for
\* one more BUY and for none.
FullDrain == INITIAL_CASH \div FIXED_NOTIONAL

SeedRuns == {<<>>, DrainPrices(FullDrain - 1), DrainPrices(FullDrain)}

StartClock == Len(DrainPrices(FullDrain))

\* The disk after one invocation per price of prices, a minute apart, the
\* first at minute timestamp.  Computed by halves; every invocation leaves
\* data/ behind, and testing it makes TLC finish the first half before it
\* starts the second.
RECURSIVE RunAll(_, _, _)
RunAll(d, timestamp, prices) ==
    IF Len(prices) = 0 THEN d
    ELSE IF Len(prices) = 1 THEN RunOnce(d, timestamp, [ok |-> TRUE, rate |-> prices[1]])
    ELSE LET half == Len(prices) \div 2
             first == RunAll(d, timestamp, SubSeq(prices, 1, half))
         IN  IF first.data_dir
             THEN RunAll(first, timestamp + half, SubSeq(prices, half + 1, Len(prices)))
             ELSE first

SeedDisk(prices) == RunAll(FreshDisk, StartClock - Len(prices), prices)

\* --------------------------------------------------------------------- state
VARIABLES
    disk,          \* data/, portfolio.json, trade_log.csv, README.md
    clock,         \* the minute of the next invocation (one invocation a minute
                   \* at most: the timestamp of line 79 has minute precision)
    pc,            \* "idle": no invocation running; "logged": between the
                   \* log append and the JSON save of execute_trade
    port,          \* the portfolio in the memory of the last invocation
    price,         \* what get_btc_price returned to the last invocation
    outcome,       \* how the last invocation ended
    trade_action,  \* the action execute_trade returned to it
    executed       \* invocations so far that reached the log append

vars == <<disk, clock, pc, port, price, outcome, trade_action, executed>>

Init ==
    \E prices \in SeedRuns :
        /\ disk = SeedDisk(prices)
        /\ clock = StartClock
        /\ pc = "idle"
        /\ port = load_portfolio(SeedDisk(prices).file)
        /\ price = IF prices = <<>> THEN Unavailable
                   ELSE [ok |-> TRUE, rate |-> prices[Len(prices)]]
        /\ outcome = IF prices = <<>> THEN "none" ELSE "completed"
        /\ trade_action = IF Len(prices) = 0 THEN "NONE"
                          ELSE IF Len(prices) = 1 THEN "INIT" ELSE "HOLD"
        /\ executed = Len(prices)

\* ------------------------------------------------------------------- actions
\* One invocation of the script, start to end (lines 132-145).
Cycle(r) ==
    /\ pc = "idle"
    /\ clock < StartClock + MaxCycles
    /\ disk' = RunOnce(disk, clock, r)
    /\ clock' = clock + 1
    /\ price' = r
    /\ outcome' = Outcome(disk, r).outcome
    /\ trade_action' = Outcome(disk, r).trade_action
    /\ port' = load_portfolio(disk'.file)
    /\ executed' = IF Outcome(disk, r).outcome = "completed" THEN executed + 1 ELSE executed
    /\ pc' = "idle"

\* The same invocation up to the end of the log append (line 86).
Begin(r) ==
    /\ pc = "idle"
    /\ clock < StartClock + MaxCrashCycles
    /\ clock' = clock + 1
    /\ price' = r
    /\ IF Outcome(disk, r).outcome = "completed"
       THEN LET t == Trade(load_portfolio(disk.file), r.rate)
            IN  /\ disk' = Logged(Loaded(disk), clock, t, r.rate)
                /\ port' = t.portfolio
                /\ trade_action' = t.trade_action
                /\ executed' = executed + 1
                /\ pc' = "logged"
                /\ outcome' = "running"
       ELSE /\ disk' = RunOnce(disk, clock, r)
            /\ port' = load_portfolio(disk.file)
            /\ trade_action' = "NONE"
            /\ outcome' = Outcome(disk, r).outcome
            /\ UNCHANGED <<executed, pc>>

\* Lines 88-92 and 142-143: the JSON save, then the dashboard.
Finish ==
    /\ pc = "logged"
    /\ disk' = Saved(disk, port)
    /\ outcome' = "completed"
    /\ pc' = "idle"
    /\ UNCHANGED <<clock, port, price, trade_action, executed>>

\* The process dies between the log append and the JSON save.
Crash ==
    /\ pc = "logged"
    /\ outcome' = "crashed"
    /\ pc' = "idle"
    /\ UNCHANGED <<disk, clock, port, price, trade_action, executed>>

Next == \E r \in FetchResults : Cycle(r)

Spec == Init /\ [][Next]_vars

NextCrash == (\E r \in FetchResults : Begin(r)) \/ Finish \/ Crash

SpecCrash == Init /\ [][NextCrash]_vars
\* ------------------------------------------------------------------ properties
\* The persisted portfolio, and the one an invocation starting now would load.
Persisted == disk.file.data

PortfolioBefore == IF disk.file.exists THEN disk.file.data ELSE FreshPortfolio

Lines == disk.log.lines

LastRow == Lines[Len(Lines)]

\* This step is a whole invocation that ran execute_trade to its end.
CycleRan == clock' = clock + 1 /\ outcome' = "completed"

\* C1: after any sequence of cycles from the fresh portfolio the persisted
\* cash and btc are never negative.
C1_NonNegative ==
    disk.file.exists => (Persisted.cash >= 0 /\ Persisted.btc >= 0)

\* A price drop met a portfolio with less than $100 of cash: the BUY was
\* rejected and the cash is still what it was, not negative.
C1_Witness ==
    /\ outcome = "completed" /\ trade_action = "HOLD"
    /\ LastRow.details = <<"insufficient cash">>
    /\ Persisted.cash < Fx(FIXED_NOTIONAL)
    /\ Persisted.btc > 0

\* C2: after every completed cycle total_value == cash + btc * p for that
\* cycle's price p, and at any time the persisted total_value is the one
\* computed at the persisted last_price.
C2_TotalValue ==
    /\ outcome = "completed" =>
          Persisted.total_value = Persisted.cash + Persisted.btc * price.rate
    /\ disk.file.exists =>
          Persisted.total_value = Persisted.cash + Persisted.btc * Persisted.last_price

C2_Witness ==
    /\ outcome = "completed" /\ trade_action = "SELL"
    /\ Persisted.btc > 0
    /\ Persisted.total_value # Fx(INITIAL_CASH)

\* C3: a cycle whose fetch fails leaves portfolio.json, trade_log.csv (and the
\* dashboard) as they were, also when they do not exist yet.
C3_FailedFetchSkips ==
    [][(clock' = clock + 1 /\ ~price'.ok) =>
          /\ outcome' = "skipped"
          /\ disk'.file = disk.file
          /\ disk'.log = disk.log
          /\ disk'.readme = disk.readme]_vars

\* Two failed fetches in a row on the fresh state: still no file, no log.
C3_Witness ==
    /\ clock = StartClock + 2 /\ executed = 0
    /\ outcome = "skipped" /\ ~price.ok
    /\ ~disk.file.exists /\ ~disk.log.exists

\* The decision table of the specification, section 4.3.
C4_Table(before, p) ==
    IF before.last_price = 0 THEN
        [action |-> "INIT", cash |-> before.cash, btc |-> before.btc]
    ELSE IF 100 * p < 98 * before.last_price /\ before.cash >= 100 * Scale THEN
        [action |-> "BUY", cash |-> before.cash - 100 * Scale,
         btc |-> before.btc + (100 * Scale) \div p]
    ELSE IF 100 * p < 98 * before.last_price /\ before.cash < 100 * Scale THEN
        [action |-> "HOLD", cash |-> before.cash, btc |-> before.btc]
    ELSE IF 100 * p > 102 * before.last_price /\ before.btc * p >= 100 * Scale THEN
        [action |-> "SELL", cash |-> before.cash + 100 * Scale,
         btc |-> before.btc - (100 * Scale) \div p]
    ELSE IF 100 * p > 102 * before.last_price /\ before.btc * p < 100 * Scale THEN
        [action |-> "HOLD", cash |-> before.cash, btc |-> before.btc]
    ELSE
        [action |-> "HOLD", cash |-> before.cash, btc |-> before.btc]

\* C4: the action and the resulting cash and btc of every execute_trade call
\* are those of the decision table.
C4_DecisionTable ==
    [][CycleRan =>
          LET row == C4_Table(PortfolioBefore, price'.rate)
          IN  /\ trade_action' = row.action
              /\ disk'.file.data.cash = row.cash
              /\ disk'.file.data.btc = row.btc]_vars

\* A price exactly 2% below the last one (100 -> 98): HOLD, small movement.
C4_Witness ==
    /\ outcome = "completed" /\ trade_action = "HOLD"
    /\ Len(Lines) >= 3
    /\ Lines[Len(Lines) - 1].price = FmtPrice(100)
    /\ LastRow.price = FmtPrice(98)
    /\ LastRow.details = <<"small move (Hold)">>
    /\ Persisted.cash >= Fx(FIXED_NOTIONAL)

\* C5: after every completed cycle, whatever the action, the persisted
\* last_price is that cycle's price.
C5_LastPriceFollows ==
    outcome = "completed" => Persisted.last_price = price.rate

\* A HOLD cycle whose price differs from the one before it.
C5_Witness ==
    /\ outcome = "completed" /\ trade_action = "HOLD"
    /\ Len(Lines) >= 3
    /\ Lines[Len(Lines) - 1].price # LastRow.price
    /\ Persisted.last_price = price.rate

C6_LogShape ==
    /\ disk.log.exists <=> executed > 0
    /\ disk.log.exists =>
          /\ Len(Lines) = 1 + executed
          /\ Lines[1] = Header
          /\ \A i \in 2..Len(Lines) : Lines[i].kind = "row"
          /\ \A i \in 3..Len(Lines) : Lines[i - 1].date < Lines[i].date
    /\ outcome = "completed" =>
          /\ LastRow.date = clock - 1
          /\ LastRow.price = FmtPrice(price.rate)

C6_AppendOnly ==
    /\ Len(disk'.log.lines) >= Len(Lines)
    /\ SubSeq(disk'.log.lines, 1, Len(Lines)) = Lines
    /\ CycleRan <=> disk'.log # disk.log

\* C6: the log is one header row and then one row per non-skipped cycle, in
\* cycle order, and a cycle only appends: what was in the log stays, unchanged
\* and in place.
C6_LogAppendOnly == []C6_LogShape /\ [][C6_AppendOnly]_vars

\* Three executed cycles and a skipped one, from no log file.
C6_Witness ==
    /\ Len(Lines) = 4
    /\ clock = StartClock + 4
    /\ outcome = "skipped"

\* The case of C7: an initialised portfolio, a price more than 2% above
\* last_price, and less than 100/price of btc.
C7_Case(before, p) ==
    /\ before.last_price # 0
    /\ 100 * p > 102 * before.last_price
    /\ before.btc * p < 100 * Scale

\* C7 as stated: in that case the action is HOLD and the portfolio record is
\* left as it was.
C7_Original ==
    [][(CycleRan /\ C7_Case(PortfolioBefore, price'.rate)) =>
          /\ trade_action' = "HOLD"
          /\ disk'.file.data = PortfolioBefore]_vars

\* C7 amended: in that case the action is HOLD (insufficient position), cash
\* and btc are left as they were, last_price becomes the current price and
\* total_value is recomputed at it.
C7_HoldKeepsCashAndBtc ==
    [][(CycleRan /\ C7_Case(PortfolioBefore, price'.rate)) =>
          /\ trade_action' = "HOLD"
          /\ disk'.log.lines[Len(disk'.log.lines)].details = <<"insufficient position">>
          /\ disk'.file.data.cash = PortfolioBefore.cash
          /\ disk'.file.data.btc = PortfolioBefore.btc
          /\ disk'.file.data.last_price = price'.rate
          /\ disk'.file.data.total_value =
                PortfolioBefore.cash + PortfolioBefore.btc * price'.rate]_vars

\* After a rise of more than 2% with no btc held.
C7_Witness ==
    /\ outcome = "completed" /\ trade_action = "HOLD"
    /\ LastRow.details = <<"insufficient position">>
    /\ Len(Lines) >= 3
    /\ 100 * LastRow.price > 102 * Lines[Len(Lines) - 1].price
    /\ Persisted.btc = 0
    /\ Persisted.cash = Fx(INITIAL_CASH)

\* C8 as stated: a fetched price of exactly zero ends the cycle in a runtime
\* fault.
C8_Original ==
    (price.ok /\ price.rate = 0) => outcome = "fault"

\* C8 amended: a fetched price of exactly zero is falsy at `if price:`, so the
\* cycle is skipped like a failed fetch: execute_trade and its division are
\* not reached, nothing faults and nothing is written.
C8_ZeroPriceSkips ==
    [][(clock' = clock + 1 /\ price'.ok /\ price'.rate = 0) =>
          /\ outcome' = "skipped"
          /\ disk'.file = disk.file
          /\ disk'.log = disk.log
          /\ disk'.readme = disk.readme]_vars

\* A zero price met a portfolio on which execute_trade would have divided by
\* it (last_price set, cash for a BUY).
C8_Witness ==
    /\ price.ok /\ price.rate = 0 /\ outcome = "skipped"
    /\ disk.file.exists
    /\ Persisted.last_price > 0
    /\ Persisted.cash >= Fx(FIXED_NOTIONAL)

C9_CompletedAgrees ==
    (pc = "idle" /\ outcome = "completed") =>
        /\ LastRow.price = FmtPrice(Persisted.last_price)
        /\ LastRow.total = Fmt(Persisted.total_value, 2)

C9_LogBeforeSave ==
    /\ (pc = "idle" /\ pc' = "logged") =>
          /\ disk'.file = disk.file
          /\ Len(disk'.log.lines) > Len(Lines)
          /\ disk'.log.lines[Len(disk'.log.lines)].price = FmtPrice(port'.last_price)
          /\ disk'.log.lines[Len(disk'.log.lines)].total = Fmt(port'.total_value, 2)
    /\ (pc = "logged" /\ outcome' = "completed") =>
          /\ disk'.log = disk.log
          /\ disk'.file = StoredFile(port)

\* C9: the row is appended before the portfolio is saved, in two steps; after
\* every cycle that completes, the last row's price and total value are those
\* of the persisted last_price and total_value.  (The crash between the two
\* steps is the state of C9_Witness.)
C9_LogThenSave == []C9_CompletedAgrees /\ [][C9_LogBeforeSave]_vars

\* A crash between the append and the save: the log has a row for a cycle
\* whose price, and whose BUY, the persisted portfolio does not have.
C9_Witness ==
    /\ pc = "idle" /\ outcome = "crashed"
    /\ disk.file.exists
    /\ LastRow.action = "BUY"
    /\ LastRow.price # FmtPrice(Persisted.last_price)
    /\ LastRow.total # Fmt(Persisted.total_value, 2)
    /\ port.cash # Persisted.cash

\* C10: INIT is the action of the first non-skipped cycle, which sets
\* last_price and leaves cash = 10000 and btc = 0, and of no later cycle;
\* once a cycle has completed the persisted last_price is not 0.
C10_InitOnce ==
    /\ executed >= 1 =>
          /\ disk.file.exists /\ Persisted.last_price # 0
          /\ Lines[2].action = "INIT"
          /\ \A i \in 3..Len(Lines) : Lines[i].action # "INIT"
    /\ (outcome = "completed" /\ executed = 1) =>
          /\ trade_action = "INIT"
          /\ Persisted.last_price = price.rate
          /\ Persisted.cash = Fx(INITIAL_CASH)
          /\ Persisted.btc = 0
    /\ (outcome = "completed" /\ executed > 1) => trade_action # "INIT"

\* From the fresh state: a zero price skipped, then INIT, then a cycle that
\* is not INIT.
C10_Witness ==
    /\ Len(Lines) = 3
    /\ clock = StartClock + 3
    /\ outcome = "completed" /\ executed = 2
    /\ Lines[2].date = StartClock + 1
    /\ trade_action # "INIT"
====
